---- MODULE Spec2Model ----
(***************************************************************************)
(* Model of bpython's curtsies front end (bpython/curtsies.py): the input  *)
(* source with its event triggers, the paste-detecting generator           *)
(* _combined_events, FullCurtsiesRepl.process_event / mainloop and the     *)
(* suspend / resume callbacks.                                             *)
(*                                                                         *)
(* The generator and the main loop run on one thread, so a single program  *)
(* counter pc covers both; keystrokes and trigger invocations arrive from  *)
(* outside that thread and interleave with every step.                     *)
(***************************************************************************)
EXTENDS Integers, Sequences, FiniteSets, TLC

\* ------------------------------------------------------------ bounds
\* Keystrokes the terminal delivers in a session of typing and pasting.
MaxKeys == 3
\* Trigger invocations (refresh, scheduled refresh, reload) in such a session.
MaxTriggers == 1
\* Keystrokes in a session in which the terminal scrolls and is suspended.
LightKeys == 2
\* Items find_iterator yields (import scanning), i.e. polls with timeout 0.
MaxScan == 2
\* Largest number of lines one render_to_terminal call reports.
MaxScrolled == 1
\* Suspends (ctrl-z) in one session.
MaxSuspends == 1

\* combined_events(event_provider, paste_threshold=3)
paste_threshold == 3

\* ------------------------------------------------------------ values
\* A raw unit of the input source. id is its arrival number (0: no arrival).
Unit(i, k) == [id |-> i, kind |-> k]
NoUnit == Unit(0, "none")
\* send() returned None because nothing arrived within the timeout.
TimeoutUnit == Unit(0, "timeout")

\* curtsies.events.Event instances the triggers construct.
EventKinds == {"RefreshRequestEvent", "ScheduledRefreshRequestEvent", "ReloadEvent"}

IsKey(u) == u.kind = "key"
IsEvent(u) == u.kind \in EventKinds
\* `e is None`: a timeout, or the None that interrupting_refresh injects.
IsNone(u) == u.kind \in {"timeout", "None"}

\* Values the generator yields and process_event receives.
Val(t, u, evs) == [type |-> t, u |-> u, events |-> evs]
NoneVal == Val("None", NoUnit, <<>>)
EventVal(u) == Val("Event", u, <<>>)
KeyVal(u) == Val("key", u, <<>>)
\* The paste built after the queue was cleared instead of before.
PasteValCleared(q) == Val("PasteEvent", NoUnit, <<>>)
\* paste = curtsies.events.PasteEvent(); paste.events.extend(queue)
PasteVal(q) == Val("PasteEvent", NoUnit, q)
StartupVal == Val("RunStartupFileEvent", NoUnit, <<>>)
PasteArgVal == Val("PasteArg", NoUnit, <<>>)

Resources == {"input_generator", "window"}

\* What the world outside the driver thread does in one session.  Two kinds of
\* session are explored: an interactive one with much input on a terminal that
\* neither scrolls nor is suspended, and one, started in any of the four ways,
\* with little input on a terminal that scrolls and is suspended.  A session is
\* started by main(), with or without --paste and a file, or by a caller of
\* mainloop that chooses `interactive` and `paste` itself.
Profiles ==
    { [keys |-> MaxKeys, triggers |-> MaxTriggers, suspends |-> 0, scrolled |-> 0,
       interactive |-> {TRUE}, paste |-> {FALSE}, options_paste |-> {FALSE}],
      [keys |-> LightKeys, triggers |-> 0, suspends |-> MaxSuspends,
       scrolled |-> MaxScrolled, interactive |-> BOOLEAN, paste |-> BOOLEAN,
       options_paste |-> BOOLEAN] }

VARIABLES
    env,            \* the session's profile (never changes)
    source,         \* input_generator: raw units waiting to be read, FIFO
    nextId,         \* arrival number of the next raw unit
    queue,          \* _combined_events: queue (collections.deque)
    timeout,        \* _combined_events: timeout last sent by the caller
    pc,             \* position of the driver thread
    phase,          \* which part of mainloop called process_event / pulled
    cur,            \* the value process_event was called with
    interactive,    \* mainloop(interactive=...)
    paste,          \* mainloop(paste=...) was given
    scanLeft,       \* items find_iterator has still to yield
    raised,         \* termination raised by dispatch ("none" if none)
    propagated,     \* termination that left mainloop ("none" if none)
    aboutToExit,    \* about_to_exit flag of the most recent paint
    userQuit,       \* user_quit flag of the most recent paint
    scroll_offset,  \* repl.scroll_offset
    held,           \* terminal resources currently entered
    suspends,       \* suspends so far
    \* history (not read by the program)
    fetched,        \* every result of event_provider.send, in order
    out,            \* every value the generator yielded, in order
    dispatched,     \* every value handed to BaseRepl.process_event, in order
    scrolledSum,    \* sum of the values render_to_terminal returned
    paintsSincePull,
    dispatchesSincePull,
    pulls,          \* values pulled from the generator so far
    exitPaints,     \* paints made with about_to_exit=True
    releaseLog,     \* resources in the order the last suspend released them
    acquireLog,     \* resources in the order the last resume entered them
    options_paste,  \* main() was started with --paste and a file to paste
    interp_locals   \* names bound in self.coderunner.interp.locals by mainloop

progVars == <<env, source, nextId, queue, timeout, pc, phase, cur, interactive, paste,
              scanLeft, raised, propagated, aboutToExit, userQuit, scroll_offset,
              held, suspends, options_paste, interp_locals>>
histVars == <<fetched, out, dispatched, scrolledSum, paintsSincePull,
              dispatchesSincePull, pulls, exitPaints, releaseLog, acquireLog>>
driverVars == <<progVars, histVars>>

\* The source-preparation functions of curtsiesfrontend/preprocess.py are pure;
\* they are exercised on their own: an argument string, the function called on
\* it, its outcome, and the outcome of calling it again on its own result.
VARIABLES
    arg,            \* the string passed to the function (a sequence of characters)
    fn,             \* the function called, "none" before the call
    once,           \* outcome of fn(arg)
    twice           \* outcome of fn(fn(arg))

preprocessVars == <<arg, fn, once, twice>>

\* Outcomes of a call: a returned string, or an exception that propagated.
NotCalled == [kind |-> "not called", value |-> <<>>]
Return(v) == [kind |-> "return", value |-> v]
Raise(exc) == [kind |-> "raise", value |-> <<exc>>]

\* Nothing of preprocess.py is being called.
PreprocessIdle ==
    /\ arg = <<>>
    /\ fn = "none"
    /\ once = NotCalled
    /\ twice = NotCalled

\* The module-change watcher of curtsiesfrontend/filewatch.py is an object of
\* its own, driven by track_module / activate / deactivate / reset calls.
VARIABLES
    activated,              \* self.activated
    started,                \* self.started
    dirs,                   \* self.dirs: dirname -> set of module paths
    modules_to_add_later,   \* self.modules_to_add_later
    old_dirs,               \* self.old_dirs
    watches,                \* the directories the observer has a watch scheduled on
    observer_running,       \* observer.start() has been called
    last_call,              \* the last call made and whether it raised
    passed                  \* every path ever passed to track_module

fileWatchState == <<activated, started, dirs, modules_to_add_later, old_dirs,
                    watches, observer_running>>
fileWatchVars == <<fileWatchState, last_call, passed>>

\* Directories of the watched tree, and the paths handed to the watcher: a
\* directory, a module name and a file suffix each.
Dirnames == {"pkg", "lib"}
RawPaths == {<<"pkg", "a", ".py">>, <<"pkg", "a", ".so">>, <<"pkg", "b", ".txt">>,
             <<"lib", "c", ".py">>}
NoPath == <<>>

\* The watcher's fields, as one value.
FileWatchFields ==
    [activated |-> activated, started |-> started, dirs |-> dirs,
     modules_to_add_later |-> modules_to_add_later, old_dirs |-> old_dirs,
     watches |-> watches, observer_running |-> observer_running]
\* A call: the method, its path argument, whether it raised, and the fields
\* it found.
Call(op, path, exc, before) ==
    [op |-> op, path |-> path, raised |-> exc, before |-> before]
NoCall == Call("none", NoPath, FALSE, <<>>)

\* No watcher is being driven.
FileWatchIdle ==
    /\ activated = FALSE
    /\ started = FALSE
    /\ dirs = <<>>
    /\ modules_to_add_later = <<>>
    /\ old_dirs = <<>>
    /\ watches = {}
    /\ observer_running = FALSE
    /\ last_call = NoCall
    /\ passed = {}

\* What a driver step leaves alone.
apartVars == <<preprocessVars, fileWatchVars>>
vars == <<driverVars, apartVars>>

\* ------------------------------------------------------------ helpers
SeqToSet(s) == {s[i] : i \in 1..Len(s)}
Reverse(s) == [i \in 1..Len(s) |-> s[Len(s) + 1 - i]]

\* main() hands the PasteEvent it built on to mainloop.
main_mainloop_args_passing(opt_paste) == [interactive |-> TRUE, paste |-> opt_paste]
\* main(): the PasteEvent built from the file goes to FullCurtsiesRepl(...,
\* interp, paste), whose __init__ does not keep it, and the loop is started by
\* repl.mainloop(): interactive=True, paste=None.
main_mainloop_args(opt_paste) == [interactive |-> TRUE, paste |-> FALSE]

\* mainloop, if interactive: interp.locals['_repl'] = self; the two runsource
\* calls bind _Helper and help; del locals['_repl']; del locals['_Helper'].
InjectHelper(locals) == ((locals \cup {"_repl"}) \cup {"_Helper", "help"}) \ {"_repl", "_Helper"}

DriverInit ==
    /\ env \in Profiles
    /\ source = <<>>
    /\ nextId = 1
    /\ queue = <<>>
    /\ timeout = "None"
    /\ pc = "warm_startup"
    /\ phase = "startup"
    /\ cur = NoneVal
    /\ options_paste \in env.options_paste
    /\ interactive \in IF options_paste
                       THEN {main_mainloop_args(options_paste).interactive}
                       ELSE env.interactive
    /\ paste \in IF options_paste
                 THEN {main_mainloop_args(options_paste).paste}
                 ELSE env.paste
    /\ interp_locals = {}
    /\ scanLeft \in 0..MaxScan
    /\ raised = "none"
    /\ propagated = "none"
    /\ aboutToExit = FALSE
    /\ userQuit = FALSE
    /\ scroll_offset = 0
    /\ held = Resources
    /\ suspends = 0
    /\ fetched = <<>>
    /\ out = <<>>
    /\ dispatched = <<>>
    /\ scrolledSum = 0
    /\ paintsSincePull = 0
    /\ dispatchesSincePull = 0
    /\ pulls = 0
    /\ exitPaints = 0
    /\ releaseLog = <<>>
    /\ acquireLog = <<>>

\* A driver that has been constructed and is never run.
DriverIdle ==
    /\ DriverInit
    /\ env.suspends = 0
    /\ scanLeft = 0

Init ==
    /\ DriverInit
    /\ PreprocessIdle
    /\ FileWatchIdle

\* ------------------------------------------------------------ input source
\* event_provider.send(timeout): the oldest waiting unit, or None when nothing
\* is waiting; with timeout None the call blocks until something arrives.
SendReturns(src, t) == src # <<>> \/ t = "0"
SendResult(src) == IF src # <<>> THEN Head(src) ELSE TimeoutUnit
SendRest(src) == IF src # <<>> THEN Tail(src) ELSE src

\* A trigger invocation: one object built by the trigger's event type is queued.
Enqueue(kind) ==
    /\ source' = Append(source, Unit(nextId, kind))
    /\ nextId' = nextId + 1

Running == pc # "exited"

\* Units of the kinds ks that have arrived so far (read or still waiting).
Arrived(ks) ==
    Cardinality({i \in 1..Len(fetched) : fetched[i].kind \in ks})
    + Cardinality({i \in 1..Len(source) : source[i].kind \in ks})

\* The terminal delivers one keystroke.
KeystrokeArrives ==
    /\ Running
    /\ Arrived({"key"}) < env.keys
    /\ Enqueue("key")
    /\ UNCHANGED <<env, queue, timeout, pc, phase, cur, interactive, paste, scanLeft,
                   raised, propagated, aboutToExit, userQuit, scroll_offset, held,
                   suspends, histVars>>
    /\ UNCHANGED <<options_paste, interp_locals, apartVars>>

\* self._request_refresh(): event_trigger, called on the driver thread while an
\* event is being dispatched.
request_refresh ==
    /\ pc = "dispatch"
    /\ Arrived(EventKinds) < env.triggers
    /\ Enqueue("RefreshRequestEvent")
    /\ UNCHANGED <<env, queue, timeout, pc, phase, cur, interactive, paste, scanLeft,
                   raised, propagated, aboutToExit, userQuit, scroll_offset, held,
                   suspends, histVars>>
    /\ UNCHANGED <<options_paste, interp_locals, apartVars>>

\* self._schedule_refresh(): scheduled_event_trigger, the event becomes due at
\* any later moment.
schedule_refresh ==
    /\ Running
    /\ Arrived(EventKinds) < env.triggers
    /\ Enqueue("ScheduledRefreshRequestEvent")
    /\ UNCHANGED <<env, queue, timeout, pc, phase, cur, interactive, paste, scanLeft,
                   raised, propagated, aboutToExit, userQuit, scroll_offset, held,
                   suspends, histVars>>
    /\ UNCHANGED <<options_paste, interp_locals, apartVars>>

\* self._request_reload(): threadsafe_event_trigger, called from another thread.
request_reload ==
    /\ Running
    /\ Arrived(EventKinds) < env.triggers
    /\ Enqueue("ReloadEvent")
    /\ UNCHANGED <<env, queue, timeout, pc, phase, cur, interactive, paste, scanLeft,
                   raised, propagated, aboutToExit, userQuit, scroll_offset, held,
                   suspends, histVars>>
    /\ UNCHANGED <<options_paste, interp_locals, apartVars>>

\* ------------------------------------------------------------ main loop entry
\* What the main loop does with a value e it pulled in phase ph:
\*   for unused in find_iterator: ... if e is not None: self.process_event(e)
\*   for e in inputs: self.process_event(e)
\* and process_event dispatches only `if e is not None`, painting otherwise.
\* process_event without its `if e is not None` test.
AfterYieldAlwaysDispatch(v, ph) ==
    IF v.type = "None" /\ ph = "scan" THEN "pull" ELSE "dispatch"
AfterYield(v, ph) ==
    IF v.type = "None"
    THEN (IF ph = "scan" THEN "pull" ELSE "paint")
    ELSE "dispatch"

\* `timeout = yield v`: the generator hands v to the main loop.
Yield(v, ph) ==
    /\ out' = Append(out, v)
    /\ cur' = v
    /\ pc' = AfterYield(v, ph)
    /\ pulls' = pulls + 1
    /\ paintsSincePull' = 0
    /\ dispatchesSincePull' = 0

\* ------------------------------------------------------------ _combined_events
\* The comparison written with > instead of >=.
ReachedThresholdStrict(q) == Len(q) > paste_threshold
\* Any queued keystroke counts as a paste.
ReachedThresholdOne(q) == Len(q) >= 1
\* if len(queue) >= paste_threshold
ReachedThreshold(q) == Len(q) >= paste_threshold

\* queue.pop() written for queue.popleft(): the newest key is yielded first.
PopRight(q) == q[Len(q)]
\* queue.popleft()
PopLeft(q) == Head(q)
\* The queue is cleared after one keystroke was replayed.
AfterPopLeftCleared(q) == <<>>
\* the queue after queue.popleft()
AfterPopLeft(q) == Tail(q)

\* e = event_provider.send(timeout), and the three branches on e.
Fetch ==
    /\ pc = "fetch"
    /\ SendReturns(source, timeout)
    /\ LET e == SendResult(source) IN
        /\ source' = SendRest(source)
        /\ fetched' = Append(fetched, e)
        /\ IF IsEvent(e)
           THEN Yield(EventVal(e), phase) /\ UNCHANGED queue
           ELSE IF IsNone(e)
           THEN Yield(NoneVal, phase) /\ UNCHANGED queue
           ELSE /\ queue' = Append(queue, e)
                /\ pc' = "probe"
                /\ UNCHANGED <<out, cur, pulls, paintsSincePull, dispatchesSincePull>>
    /\ UNCHANGED <<env, nextId, timeout, phase, interactive, paste, scanLeft, raised,
                   propagated, aboutToExit, userQuit, scroll_offset, held, suspends,
                   dispatched, scrolledSum, exitPaints, releaseLog, acquireLog>>
    /\ UNCHANGED <<options_paste, interp_locals, apartVars>>

\* e = event_provider.send(0) inside the accumulation loop; when e stops the
\* loop, the queue is yielded as one PasteEvent or its first key is yielded.
Probe ==
    /\ pc = "probe"
    /\ LET e == SendResult(source) IN
        /\ source' = SendRest(source)
        /\ fetched' = Append(fetched, e)
        /\ IF ~(IsNone(e) \/ IsEvent(e))
           THEN /\ queue' = Append(queue, e)
                /\ UNCHANGED <<pc, out, cur, pulls, paintsSincePull, dispatchesSincePull>>
           ELSE IF ReachedThreshold(queue)
           THEN /\ Yield(PasteVal(queue), phase)
                /\ queue' = <<>>
           ELSE /\ Yield(KeyVal(PopLeft(queue)), phase)
                /\ queue' = AfterPopLeft(queue)
    /\ UNCHANGED <<env, nextId, timeout, phase, interactive, paste, scanLeft, raised,
                   propagated, aboutToExit, userQuit, scroll_offset, held, suspends,
                   dispatched, scrolledSum, exitPaints, releaseLog, acquireLog>>
    /\ UNCHANGED <<options_paste, interp_locals, apartVars>>

\* The main loop asks for the next value: inputs.send(0) while find_iterator
\* still yields, next(inputs) afterwards.  The generator resumes inside
\* `while len(queue): timeout = yield queue.popleft()` or goes back to fetch.
Pull ==
    /\ pc = "pull"
    /\ LET ph == IF scanLeft > 0 THEN "scan" ELSE "loop" IN
        /\ phase' = ph
        /\ timeout' = (IF scanLeft > 0 THEN "0" ELSE "None")
        /\ scanLeft' = (IF scanLeft > 0 THEN scanLeft - 1 ELSE 0)
        /\ IF Len(queue) > 0
           THEN /\ Yield(KeyVal(PopLeft(queue)), ph)
                /\ queue' = AfterPopLeft(queue)
           ELSE /\ pc' = "fetch"
                /\ UNCHANGED <<queue, out, cur, pulls, paintsSincePull,
                               dispatchesSincePull>>
    /\ UNCHANGED <<env, source, nextId, interactive, paste, raised, propagated,
                   aboutToExit, userQuit, scroll_offset, held, suspends, fetched,
                   dispatched, scrolledSum, exitPaints, releaseLog, acquireLog>>
    /\ UNCHANGED <<options_paste, interp_locals, apartVars>>

\* ------------------------------------------------------------ process_event
\* What BaseRepl.process_event(e) may do with an event: return, raise one of
\* the two terminations, or (for the suspend key) run on_suspend, stop the
\* process and run after_suspend before it returns.
Terminations == {"SystemExit", "SystemExitFromCodeGreenlet"}

BaseReplProcessEvent ==
    /\ pc = "dispatch"
    /\ dispatched' = Append(dispatched, cur)
    /\ dispatchesSincePull' = dispatchesSincePull + 1
    /\ \/ /\ pc' = "paint"
          /\ raised' = "none"
          /\ UNCHANGED <<suspends, releaseLog, acquireLog>>
       \/ /\ \E t \in Terminations : raised' = t
          /\ pc' = "paint"
          /\ UNCHANGED <<suspends, releaseLog, acquireLog>>
       \/ /\ cur.type = "key"
          /\ suspends < env.suspends
          /\ suspends' = suspends + 1
          /\ releaseLog' = <<>>
          /\ acquireLog' = <<>>
          /\ pc' = "on_suspend_1"
          /\ UNCHANGED raised
    /\ UNCHANGED <<env, source, nextId, queue, timeout, phase, cur, interactive, paste,
                   scanLeft, propagated, aboutToExit, userQuit, scroll_offset, held,
                   fetched, out, scrolledSum, paintsSincePull, pulls, exitPaints>>
    /\ UNCHANGED <<options_paste, interp_locals, apartVars>>

\* `=` written for `+=`.
NewScrollOffsetAssigned(offset, scrolled) == scrolled
\* `-=` written for `+=`.
NewScrollOffsetSubtracted(offset, scrolled) == offset - scrolled
\* self.scroll_offset += scrolled
NewScrollOffset(offset, scrolled) == offset + scrolled

\* Where control goes when process_event ends in phase ph: `raise` in the
\* except branch leaves mainloop; otherwise mainloop goes on.
\* The except branch without its `raise`.
AfterProcessEventSwallowed(r, ph) ==
    IF ph = "startup" THEN "warm_paste"
    ELSE IF ph = "paste" THEN "warm_paint"
    ELSE "pull"
\* The warm-up goes from the startup file straight to the first paint.
AfterProcessEventSkippingPaste(r, ph) ==
    IF r # "none" THEN "exited"
    ELSE IF ph = "startup" THEN "warm_paint"
    ELSE IF ph = "paste" THEN "warm_paint"
    ELSE "pull"
AfterProcessEvent(r, ph) ==
    IF r # "none" THEN "exited"
    ELSE IF ph = "startup" THEN "warm_paste"
    ELSE IF ph = "paste" THEN "warm_paint"
    ELSE "pull"

\* self.paint(...), self.window.render_to_terminal(array, cursor_pos) and the
\* update of scroll_offset, in the except branch or in the else branch.
Paint ==
    /\ pc = "paint"
    /\ \E scrolled \in 0..env.scrolled :
        /\ scroll_offset' = NewScrollOffset(scroll_offset, scrolled)
        /\ scrolledSum' = scrolledSum + scrolled
    /\ aboutToExit' = (raised # "none")
    /\ userQuit' = (raised = "SystemExitFromCodeGreenlet")
    /\ exitPaints' = exitPaints + (IF raised # "none" THEN 1 ELSE 0)
    /\ paintsSincePull' = paintsSincePull + 1
    /\ pc' = AfterProcessEvent(raised, phase)
    /\ propagated' = (IF pc' = "exited" THEN raised ELSE propagated)
    /\ UNCHANGED <<env, source, nextId, queue, timeout, phase, cur, interactive, paste,
                   scanLeft, raised, held, suspends, fetched, out, dispatched,
                   dispatchesSincePull, pulls, releaseLog, acquireLog>>
    /\ UNCHANGED <<options_paste, interp_locals, apartVars>>

\* ------------------------------------------------------------ suspend / resume
\* on_suspend: self.window.__exit__(...) then self.input_generator.__exit__(...)
OnSuspendOrder == <<"window", "input_generator">>
\* after_suspend entering the window first.
AfterSuspendOrderSwapped == <<"window", "input_generator">>
\* after_suspend: self.input_generator.__enter__() then self.window.__enter__()
AfterSuspendOrder == <<"input_generator", "window">>

Exit(r) ==
    /\ held' = held \ {r}
    /\ releaseLog' = Append(releaseLog, r)

Enter(r) ==
    /\ held' = held \cup {r}
    /\ acquireLog' = Append(acquireLog, r)

on_suspend ==
    /\ \/ pc = "on_suspend_1" /\ Exit(OnSuspendOrder[1]) /\ pc' = "on_suspend_2"
       \/ pc = "on_suspend_2" /\ Exit(OnSuspendOrder[2]) /\ pc' = "stopped"
    /\ UNCHANGED <<env, source, nextId, queue, timeout, phase, cur, interactive, paste,
                   scanLeft, raised, propagated, aboutToExit, userQuit,
                   scroll_offset, suspends, fetched, out, dispatched, scrolledSum,
                   paintsSincePull, dispatchesSincePull, pulls, exitPaints,
                   acquireLog>>
    /\ UNCHANGED <<options_paste, interp_locals, apartVars>>

\* The process is stopped (SIGTSTP) and later continued.
Resume ==
    /\ pc = "stopped"
    /\ pc' = "after_suspend_1"
    /\ UNCHANGED <<env, source, nextId, queue, timeout, phase, cur, interactive, paste,
                   scanLeft, raised, propagated, aboutToExit, userQuit,
                   scroll_offset, held, suspends, histVars>>
    /\ UNCHANGED <<options_paste, interp_locals, apartVars>>

\* interrupting_refresh built on RefreshRequestEvent instead of lambda: None.
interrupting_refresh_as_event == "RefreshRequestEvent"
\* self.interrupting_refresh = threadsafe_event_trigger(lambda: None): what the
\* trigger queues is None.
interrupting_refresh_event == "None"

after_suspend ==
    /\ \/ pc = "after_suspend_1" /\ Enter(AfterSuspendOrder[1])
          /\ pc' = "after_suspend_2" /\ UNCHANGED <<source, nextId>>
       \/ pc = "after_suspend_2" /\ Enter(AfterSuspendOrder[2])
          /\ pc' = "after_suspend_3" /\ UNCHANGED <<source, nextId>>
       \* self.interrupting_refresh(): threadsafe_event_trigger(lambda: None)
       \/ pc = "after_suspend_3" /\ Enqueue(interrupting_refresh_event)
          /\ pc' = "paint" /\ UNCHANGED <<held, acquireLog>>
    /\ UNCHANGED <<env, queue, timeout, phase, cur, interactive, paste, scanLeft, raised,
                   propagated, aboutToExit, userQuit, scroll_offset, suspends,
                   fetched, out, dispatched, scrolledSum, paintsSincePull,
                   dispatchesSincePull, pulls, exitPaints, releaseLog>>
    /\ UNCHANGED <<options_paste, interp_locals, apartVars>>

\* ------------------------------------------------------------ mainloop
\* if interactive: ... self.process_event(bpythonevents.RunStartupFileEvent())
MainloopStartup ==
    /\ pc = "warm_startup"
    /\ IF interactive
       THEN /\ interp_locals' = InjectHelper(interp_locals)
            /\ cur' = StartupVal /\ phase' = "startup" /\ pc' = "dispatch"
       ELSE pc' = "warm_paste" /\ UNCHANGED <<cur, phase, interp_locals>>
    /\ UNCHANGED <<env, source, nextId, queue, timeout, interactive, paste, scanLeft,
                   raised, propagated, aboutToExit, userQuit, scroll_offset, held,
                   suspends, histVars>>
    /\ UNCHANGED <<options_paste, apartVars>>

\* if paste: self.process_event(paste)
MainloopPaste ==
    /\ pc = "warm_paste"
    /\ IF paste
       THEN cur' = PasteArgVal /\ phase' = "paste" /\ pc' = "dispatch"
       ELSE pc' = "warm_paint" /\ UNCHANGED <<cur, phase>>
    /\ UNCHANGED <<env, source, nextId, queue, timeout, interactive, paste, scanLeft,
                   raised, propagated, aboutToExit, userQuit, scroll_offset, held,
                   suspends, histVars>>
    /\ UNCHANGED <<options_paste, interp_locals, apartVars>>

\* self.process_event(None); inputs = combined_events(self.input_generator)
MainloopFirstPaint ==
    /\ pc = "warm_paint"
    /\ cur' = NoneVal
    /\ phase' = "first_paint"
    /\ pc' = "paint"
    /\ UNCHANGED <<env, source, nextId, queue, timeout, interactive, paste, scanLeft,
                   raised, propagated, aboutToExit, userQuit, scroll_offset, held,
                   suspends, histVars>>
    /\ UNCHANGED <<options_paste, interp_locals, apartVars>>

Next ==
    \/ KeystrokeArrives
    \/ request_refresh
    \/ schedule_refresh
    \/ request_reload
    \/ MainloopStartup
    \/ MainloopPaste
    \/ MainloopFirstPaint
    \/ Pull
    \/ Fetch
    \/ Probe
    \/ BaseReplProcessEvent
    \/ Paint
    \/ on_suspend
    \/ Resume
    \/ after_suspend

Spec == Init /\ [][Next]_vars

\* ------------------------------------------------------------ reading the history
IsPasteOf(v, keys) == v.type = "PasteEvent" /\ v.events = keys
IsKeyOf(v, u) == v.type = "key" /\ v.u = u
IsEventOf(v, u) == v.type = "Event" /\ v.u = u
IsNoneOut(v) == v.type = "None"

\* Number of yielded values that are the event u.
TimesEmitted(u) == Cardinality({m \in 1..Len(out) : IsEventOf(out[m], u)})
\* Number of dispatched values that are the event u.
TimesDispatched(u) ==
    Cardinality({m \in 1..Len(dispatched) : IsEventOf(dispatched[m], u)})

\* The generator has been resumed and is about to read the source again:
\* everything it read before has been dealt with.
AtOuterFetch == pc = "fetch"

\* fetched[i..j] is a maximal run of keystrokes that a non-keystroke ended.
KeyRunAt(i, j) ==
    /\ 1 <= i /\ i <= j /\ j < Len(fetched)
    /\ \A k \in i..j : IsKey(fetched[k])
    /\ i = 1 \/ ~IsKey(fetched[i - 1])
    /\ ~IsKey(fetched[j + 1])
Run(i, j) == SubSeq(fetched, i, j)
\* The positions at which such a run ends, and where the run ending at j starts.
RunEnds == {j \in 1..Len(fetched) - 1 : IsKey(fetched[j]) /\ ~IsKey(fetched[j + 1])}
RunStart(j) ==
    CHOOSE i \in 1..j : /\ \A k \in i..j : IsKey(fetched[k])
                        /\ i = 1 \/ ~IsKey(fetched[i - 1])

\* fetched[i..j] is a maximal stretch without a structured event.
EventFreeAt(i, j) ==
    /\ 1 <= i /\ i <= j /\ j <= Len(fetched)
    /\ \A k \in i..j : ~IsEvent(fetched[k])
    /\ i = 1 \/ IsEvent(fetched[i - 1])
    /\ j = Len(fetched) \/ IsEvent(fetched[j + 1])
KeysOf(i, j) == SelectSeq(SubSeq(fetched, i, j), IsKey)

\* Pastes among the yielded values that hold the keystroke u.
PastesHolding(u) ==
    {m \in 1..Len(out) : out[m].type = "PasteEvent"
                         /\ \E k \in 1..Len(out[m].events) : out[m].events[k] = u}
\* Positions at which the keystroke u was yielded on its own.
SinglesOf(u) == {m \in 1..Len(out) : IsKeyOf(out[m], u)}

\* ------------------------------------------------------------ claims

\* C1 (as claimed): a structured event that a non-blocking probe returned while
\* keystrokes were queued is emitted exactly once by the time the generator
\* reads the source again (it is emitted on the cycle after the keystrokes).
C1_ProbedEventEmitted ==
    AtOuterFetch =>
        \A i \in 2..Len(fetched) :
            (IsEvent(fetched[i]) /\ IsKey(fetched[i - 1]))
                => TimesEmitted(fetched[i]) = 1

\* C2 (as claimed): once everything read has been emitted, every stretch of
\* raw units without a structured event that holds at least paste_threshold
\* keystrokes has been emitted as exactly one PasteEvent of all of them, and
\* none of them on its own.
C2_EventFreeKeysPasted ==
    AtOuterFetch =>
        \A i \in 1..Len(fetched) : \A j \in i..Len(fetched) :
            (EventFreeAt(i, j) /\ Len(KeysOf(i, j)) >= paste_threshold)
                => /\ Cardinality({m \in 1..Len(out) :
                                      IsPasteOf(out[m], KeysOf(i, j))}) = 1
                   /\ \A k \in 1..Len(KeysOf(i, j)) : SinglesOf(KeysOf(i, j)[k]) = {}

\* C2 (amended): every maximal run of at least paste_threshold keystrokes read
\* by consecutive sends, with neither a structured event nor a timeout among
\* them, is emitted as exactly one PasteEvent holding all of them in order;
\* none of its keystrokes is emitted on its own or in another PasteEvent.
C2_RunPasted ==
    \A j \in RunEnds :
        LET i == RunStart(j) IN
        (j - i + 1 >= paste_threshold)
            => /\ Cardinality({m \in 1..Len(out) : IsPasteOf(out[m], Run(i, j))}) = 1
               /\ \A k \in i..j :
                    /\ SinglesOf(fetched[k]) = {}
                    /\ \A m \in PastesHolding(fetched[k]) : IsPasteOf(out[m], Run(i, j))

\* C2 witness: three keystrokes were read in a row, a structured event ended
\* the run, and the run was emitted as a paste.
C2_Witness ==
    /\ Len(fetched) >= 4
    /\ KeyRunAt(1, 3)
    /\ IsEvent(fetched[4])
    /\ Len(out) >= 1
    /\ IsPasteOf(out[1], Run(1, 3))

\* The keystrokes of fetched[i..j] yielded on their own, in the order yielded.
InRun(v, i, j) == v.type = "key" /\ \E k \in i..j : fetched[k] = v.u
SinglesOfRun(i, j) ==
    LET Test(v) == InRun(v, i, j)
        vs == SelectSeq(out, Test)
    IN [k \in 1..Len(vs) |-> vs[k].u]
\* The part of the run fetched[i..j] that is still in the queue.
PendingOfRun(i, j) ==
    IF Len(queue) > 0 /\ queue[Len(queue)] = fetched[j] THEN queue ELSE <<>>

\* C3: every maximal run of fewer than paste_threshold keystrokes that a
\* timeout or structured event ended is emitted one keystroke at a time in the
\* order read (what is not yet emitted is still queued, in order), and no
\* PasteEvent holds any of its keystrokes.
C3_ShortRunReplayed ==
    \A j \in RunEnds :
        LET i == RunStart(j) IN
        (j - i + 1 < paste_threshold)
            => /\ SinglesOfRun(i, j) \o PendingOfRun(i, j) = Run(i, j)
               /\ \A k \in i..j : PastesHolding(fetched[k]) = {}
               /\ \A k \in i..j : Cardinality(SinglesOf(fetched[k])) <= 1

\* C3 witness: a run of two keystrokes was ended and both were emitted.
C3_Witness ==
    /\ Len(fetched) >= 3
    /\ KeyRunAt(1, 2)
    /\ queue = <<>>
    /\ SinglesOfRun(1, 2) = Run(1, 2)

\* The source delivered Keystroke, Keystroke, Keystroke, Timeout.
C4_Scenario ==
    /\ Len(fetched) >= 4
    /\ \A k \in 1..3 : IsKey(fetched[k])
    /\ fetched[4] = TimeoutUnit

C5_TriggersDelivered ==
    /\ AtOuterFetch =>
         \A i \in 1..Len(fetched) :
            IsEvent(fetched[i]) => TimesDispatched(fetched[i]) = 1
    /\ \A m \in 1..Len(dispatched) : \A n \in m + 1..Len(dispatched) :
         (dispatched[m].type = "Event" /\ dispatched[n].type = "Event")
            => dispatched[m].u.id < dispatched[n].u.id

\* C6: a termination raised by dispatch is followed by exactly one paint, made
\* with about_to_exit=True (user_quit telling the two terminations apart), and
\* then leaves mainloop unchanged; the terminating event stays the last value
\* pulled and the last value dispatched, and mainloop ends in no other way.
C6_FinalPaintThenPropagate ==
    /\ raised # "none" =>
        /\ pc \in {"paint", "exited"}
        /\ Len(dispatched) >= 1
        /\ dispatched[Len(dispatched)] = cur
        /\ phase \in {"scan", "loop"} => (Len(out) >= 1 /\ out[Len(out)] = cur)
        /\ pc = "paint" => (exitPaints = 0 /\ propagated = "none")
        /\ pc = "exited" =>
            /\ exitPaints = 1
            /\ aboutToExit
            /\ userQuit = (raised = "SystemExitFromCodeGreenlet")
            /\ propagated = raised
    /\ raised = "none" => (exitPaints = 0 /\ pc # "exited" /\ propagated = "none")

\* C6 witness: code run by an event pulled in the blocking loop terminated the
\* session while another unit was still waiting in the source.
C6_Witness ==
    /\ pc = "exited"
    /\ propagated = "SystemExitFromCodeGreenlet"
    /\ phase = "loop"
    /\ Len(source) >= 1

\* The main loop is about to pull a value and has pulled one before.
AtNextPull == pc = "pull" /\ pulls > 0

\* C7 (as claimed): every value pulled, None included, is followed by exactly
\* one paint before the next value is pulled, in the scanning phase too; None
\* is not dispatched.
C7_PaintAfterEveryPull ==
    AtNextPull =>
        /\ paintsSincePull = 1
        /\ cur.type = "None" => dispatchesSincePull = 0

\* C7 (amended): a value that is not None is dispatched once and painted once
\* before the next pull; None pulled by the blocking loop is painted once and
\* not dispatched; None pulled with timeout 0 while find_iterator still yields
\* is neither dispatched nor painted.
C7_PaintAfterPull ==
    AtNextPull =>
        IF cur.type = "None"
        THEN /\ dispatchesSincePull = 0
             /\ paintsSincePull = (IF phase = "scan" THEN 0 ELSE 1)
        ELSE /\ dispatchesSincePull = 1
             /\ paintsSincePull = 1

\* C7 witness: the blocking loop pulled None and painted without dispatching.
C7_Witness ==
    /\ AtNextPull
    /\ cur.type = "None"
    /\ phase = "loop"
    /\ paintsSincePull = 1
    /\ dispatchesSincePull = 0

\* C8: scroll_offset is its initial value, 0, plus the sum of the amounts
\* render_to_terminal has returned so far, in normal and in final paints.
C8_ScrollOffsetIsSum == scroll_offset = 0 + scrolledSum

\* C8 witness: the session ended after a final paint and two paints scrolled.
C8_Witness ==
    /\ pc = "exited"
    /\ scrolledSum >= 2

\* C9: no step of the driver lowers scroll_offset.
C9_ScrollOffsetMonotonic == [][scroll_offset' >= scroll_offset]_vars

\* C9 witness: the terminal has scrolled and the session was suspended and
\* resumed.
C9_Witness ==
    /\ scroll_offset > 0
    /\ suspends > 0
    /\ pc = "pull"

\* C10 (as claimed): after a resume the two terminal resources have been
\* entered in the order in which the suspend released them.
C10_SameOrder ==
    Len(acquireLog) = Cardinality(Resources) => acquireLog = releaseLog

\* C10 (amended): both terminal resources are released (window first, input
\* capture second) when the process stops; resume enters them in the reverse
\* of the order of release; and everywhere outside on_suspend / after_suspend
\* both are held.
C10_ReleaseThenReverseAcquire ==
    /\ pc = "stopped" => (held = {} /\ releaseLog = <<"window", "input_generator">>)
    /\ Len(acquireLog) = Cardinality(Resources) => acquireLog = Reverse(releaseLog)
    /\ pc \notin {"on_suspend_2", "stopped", "after_suspend_1", "after_suspend_2"}
         => held = Resources
    /\ pc \in {"fetch", "probe", "dispatch", "paint", "pull"} /\ suspends > 0
         => (releaseLog = <<>> \/ Len(acquireLog) = Cardinality(Resources))

\* C10 witness: a suspended session was resumed and is about to pull again.
C10_Witness ==
    /\ suspends = 1
    /\ Len(acquireLog) = Cardinality(Resources)
    /\ held = Resources
    /\ pc = "pull"

\* Positions inside on_suspend, the stop, and after_suspend.
SuspendPcs == {"on_suspend_1", "on_suspend_2", "stopped", "after_suspend_1",
               "after_suspend_2", "after_suspend_3"}

MaxLayoutLen == 6
MaxSugarLen == 5
Surrogate == "U+DC80"
LayoutAlphabet == {" ", "\t", "x", "\n"}
SugarAlphabet == {"x", ".", " ", "!", "?", Surrogate}
Characters == LayoutAlphabet \cup SugarAlphabet
StringsUpTo(alphabet, n) == UNION {[1..k -> alphabet] : k \in 0..n}
Arguments ==
    StringsUpTo(LayoutAlphabet, MaxLayoutLen) \cup StringsUpTo(SugarAlphabet, MaxSugarLen)

\* ------------------------------------------------------------ str methods
\* What \s matches, and what str.strip() strips, among the characters drawn.
Whitespace == {" ", "\t", "\n"}
\* string.ascii_letters
ascii_letters ==
    {"a", "b", "c", "d", "e", "f", "g", "h", "i", "j", "k", "l", "m", "n", "o", "p",
     "q", "r", "s", "t", "u", "v", "w", "x", "y", "z", "A", "B", "C", "D", "E", "F",
     "G", "H", "I", "J", "K", "L", "M", "N", "O", "P", "Q", "R", "S", "T", "U", "V",
     "W", "X", "Y", "Z"}

\* Length of the longest prefix / suffix of s made of characters of chars.
PrefixLen(s, chars) ==
    Cardinality({k \in 1..Len(s) : \A j \in 1..k : s[j] \in chars})
SuffixLen(s, chars) ==
    Cardinality({k \in 1..Len(s) : \A j \in k..Len(s) : s[j] \in chars})

RECURSIVE split(_, _)
\* s.split(sep) for a one-character sep: always at least one piece.
split(s, sep) ==
    IF \A i \in 1..Len(s) : s[i] # sep
    THEN <<s>>
    ELSE LET i == PrefixLen(s, Characters \ {sep}) + 1
         IN <<SubSeq(s, 1, i - 1)>> \o split(SubSeq(s, i + 1, Len(s)), sep)

RECURSIVE join(_, _)
\* sep.join(pieces)
join(pieces, sep) ==
    IF pieces = <<>> THEN <<>>
    ELSE IF Len(pieces) = 1 THEN pieces[1]
    ELSE pieces[1] \o <<sep>> \o join(Tail(pieces), sep)

\* s.strip(chars), and s.strip() with chars = Whitespace
strip(s, chars) ==
    IF PrefixLen(s, chars) = Len(s)
    THEN <<>>
    ELSE SubSeq(s, PrefixLen(s, chars) + 1, Len(s) - SuffixLen(s, chars))

\* s.endswith(suffix)
endswith(s, suffix) ==
    /\ Len(s) >= Len(suffix)
    /\ SubSeq(s, Len(s) - Len(suffix) + 1, Len(s)) = suffix

\* s.removesuffix(suffix)
removesuffix(s, suffix) ==
    IF endswith(s, suffix) THEN SubSeq(s, 1, Len(s) - Len(suffix)) ELSE s

\* s.partition(sep): the split is made at the first sep, not the last.
partition(s, sep) ==
    IF \A i \in 1..Len(s) : s[i] # sep
    THEN <<s, <<>>, <<>>>>
    ELSE LET i == PrefixLen(s, Characters \ {sep}) + 1
         IN <<SubSeq(s, 1, i - 1), <<sep>>, SubSeq(s, i + 1, Len(s))>>
\* s.rpartition(sep) for a one-character sep: <<left, sep, right>>
rpartition(s, sep) ==
    IF \A i \in 1..Len(s) : s[i] # sep
    THEN <<<<>>, <<>>, s>>
    ELSE LET i == Len(s) - SuffixLen(s, Characters \ {sep})
         IN <<SubSeq(s, 1, i - 1), <<sep>>, SubSeq(s, i + 1, Len(s))>>

\* k * c
Repeat(c, k) == [i \in 1..k |-> c]

\* ------------------------------------------------------------ indentation repair
\* indent_empty_lines_re.match(line).group(): the leading whitespace of line
indent_empty_lines_re(line) == SubSeq(line, 1, PrefixLen(line, Whitespace))

\* The longer indentation is copied instead of the shorter.
max_by_len(p_indent, n_indent) ==
    IF Len(p_indent) >= Len(n_indent) THEN p_indent ELSE n_indent
\* min([p_indent, n_indent], key=len): the first of the shortest
min_by_len(p_indent, n_indent) ==
    IF Len(p_indent) <= Len(n_indent) THEN p_indent ELSE n_indent

indent_empty_lines(s) ==
    LET initial_lines == split(s, "\n")
        ends_with_newline == initial_lines[Len(initial_lines)] = <<>>
        lines == IF ends_with_newline
                 THEN SubSeq(initial_lines, 1, Len(initial_lines) - 1)
                 ELSE initial_lines
        p_line(i) == IF i = 1 THEN <<>> ELSE lines[i - 1]
        n_line(i) == IF i = Len(lines) THEN <<>> ELSE lines[i + 1]
        result_lines ==
            [i \in 1..Len(lines) |->
                IF Len(lines[i]) = 0
                THEN min_by_len(indent_empty_lines_re(p_line(i)),
                                indent_empty_lines_re(n_line(i))) \o lines[i]
                ELSE lines[i]]
    IN join(result_lines, "\n") \o (IF ends_with_newline THEN <<"\n">> ELSE <<>>)

\* tabs_to_spaces_re.sub(tab_to_space, line): the run of tabs at the start of
\* the line becomes four blanks per tab
tabs_to_spaces_re_sub(line) ==
    LET n == PrefixLen(line, {"\t"})
    IN Repeat(" ", n * 4) \o SubSeq(line, n + 1, Len(line))

leading_tabs_to_spaces(s) ==
    LET lines == split(s, "\n")
    IN join([i \in 1..Len(lines) |-> tabs_to_spaces_re_sub(lines[i])], "\n")

preprocess(s) == indent_empty_lines(leading_tabs_to_spaces(s))

\* ------------------------------------------------------------ ast
\* ast.parse on texts over SugarAlphabet.  The tokens such a text can hold
\* are names, dots, the ellipsis and stray characters; the only statements
\* they can form are an expression `name(.name)*` or `...(.name)*`, or none.
NameChars == {"x"}

RECURSIVE tokenize(_)
tokenize(s) ==
    IF s = <<>> THEN <<>>
    ELSE IF s[1] = " " THEN tokenize(Tail(s))
    ELSE IF s[1] \in NameChars
    THEN LET n == PrefixLen(s, NameChars)
         IN <<[type |-> "NAME", string |-> SubSeq(s, 1, n)]>>
                \o tokenize(SubSeq(s, n + 1, Len(s)))
    ELSE IF Len(s) >= 3 /\ SubSeq(s, 1, 3) = <<".", ".", ".">>
    THEN <<[type |-> "ELLIPSIS", string |-> SubSeq(s, 1, 3)]>>
                \o tokenize(SubSeq(s, 4, Len(s)))
    ELSE IF s[1] = "."
    THEN <<[type |-> "DOT", string |-> <<".">>]>> \o tokenize(Tail(s))
    ELSE <<[type |-> "ERRORTOKEN", string |-> <<s[1]>>]>> \o tokenize(Tail(s))

RECURSIVE Trailers(_, _)
\* The expression node for `value` followed by the trailers `.name` in toks.
Trailers(value, toks) ==
    IF toks = <<>> THEN value
    ELSE Trailers([node |-> "Attribute", value |-> value, attr |-> toks[2].string],
                  SubSeq(toks, 3, Len(toks)))

\* ast.parse(source): a Module tree, or the exception raised.  A lone
\* surrogate cannot be encoded for the parser: UnicodeEncodeError, which is not
\* a SyntaxError.
ast_parse(code) ==
    LET toks == tokenize(code)
        rest == Tail(toks)
        WellFormed ==
            /\ code[1] # " "
            /\ toks[1].type \in {"NAME", "ELLIPSIS"}
            /\ Len(rest) % 2 = 0
            /\ \A i \in 1..Len(rest) :
                  rest[i].type = IF i % 2 = 1 THEN "DOT" ELSE "NAME"
        atom == IF toks[1].type = "NAME"
                THEN [node |-> "Name", id |-> toks[1].string]
                ELSE [node |-> "Constant", value |-> "Ellipsis"]
    IN IF \E i \in 1..Len(code) : code[i] = Surrogate
       THEN Raise("UnicodeEncodeError")
       ELSE IF toks = <<>>
       THEN Return([node |-> "Module", body |-> <<>>])
       ELSE IF ~WellFormed
       THEN Raise("SyntaxError")
       ELSE Return([node |-> "Module",
                    body |-> <<[node |-> "Expr", value |-> Trailers(atom, rest)]>>])

RECURSIVE ast_unparse(_)
ast_unparse(node) ==
    CASE node.node = "Name" -> node.id
      [] node.node = "Attribute" -> ast_unparse(node.value) \o <<".">> \o node.attr
      [] node.node = "Constant" -> <<".", ".", ".">>

\* nv.exprs after nv.visit(tree): visit_Attribute and visit_Name record the
\* node's text and do not descend; every other node is walked through in
\* field order, and a Constant has no children.
NodeVisitor_exprs(tree) ==
    IF tree.body = <<>> THEN <<>>
    ELSE LET e == tree.body[1].value
         IN IF e.node \in {"Attribute", "Name"} THEN <<ast_unparse(e)>> ELSE <<>>

\* ------------------------------------------------------------ desugar
DesugaringException(msg) == [kind |-> "raise", value |-> <<"DesugaringException", msg>>]

find_first_identifier(code) ==
    LET parsed == ast_parse(code) IN
    IF parsed.kind = "raise"
    THEN IF parsed.value = <<"SyntaxError">>
         THEN DesugaringException("invalid syntax")
         ELSE parsed
    ELSE LET exprs == NodeVisitor_exprs(parsed.value)
         IN IF Len(exprs) < 1
            THEN DesugaringException("no identifier names in source")
            ELSE Return(exprs[1])

\* The two texts desugar builds for a source ending in '??'; the fixed parts
\* of a text are kept as single pieces.
DocPrint(identifier) ==
    <<"print(">> \o identifier \o <<".__doc__ or \"'">> \o identifier
        \o <<"' has no docstring\")">>
FallbackPrint(exc) == <<"print('Unable to find docs (", exc, ")')">>

desugar(code) ==
    IF endswith(code, <<"?", "?">>)
    THEN LET identifier ==
                 find_first_identifier(removesuffix(strip(code, Whitespace), <<"?", "?">>))
         IN IF identifier.kind = "return"
            THEN Return(DocPrint(identifier.value))
            ELSE IF identifier.value[1] = "DesugaringException"
            THEN Return(FallbackPrint(identifier.value[2]))
            ELSE identifier
    ELSE IF endswith(strip(code, ascii_letters), <<"!">>)
    THEN LET parts == rpartition(code, "!")
         IN Return(parts[3] \o <<"(">> \o parts[1] \o <<")">>)
    ELSE Return(code)

\* ------------------------------------------------------------ calling the functions
PreprocessInit ==
    /\ arg \in Arguments
    /\ fn = "none"
    /\ once = NotCalled
    /\ twice = NotCalled

\* fn(s) for the functions that map a string to a string
Apply(f, s) ==
    CASE f = "indent_empty_lines" -> Return(indent_empty_lines(s))
      [] f = "preprocess" -> Return(preprocess(s))

CallIndentEmptyLines ==
    /\ fn = "none"
    /\ fn' = "indent_empty_lines"
    /\ once' = Apply("indent_empty_lines", arg)
    /\ UNCHANGED <<arg, twice>>
    /\ UNCHANGED <<driverVars, fileWatchVars>>

CallPreprocess ==
    /\ fn = "none"
    /\ fn' = "preprocess"
    /\ once' = Apply("preprocess", arg)
    /\ UNCHANGED <<arg, twice>>
    /\ UNCHANGED <<driverVars, fileWatchVars>>

CallDesugar ==
    /\ fn = "none"
    /\ fn' = "desugar"
    /\ once' = desugar(arg)
    /\ UNCHANGED <<arg, twice>>
    /\ UNCHANGED <<driverVars, fileWatchVars>>

\* The function is called again on what it returned.
CallAgain ==
    /\ fn \in {"indent_empty_lines", "preprocess"}
    /\ twice = NotCalled
    /\ twice' = Apply(fn, once.value)
    /\ UNCHANGED <<arg, fn, once>>
    /\ UNCHANGED <<driverVars, fileWatchVars>>

PreprocessNext ==
    \/ CallIndentEmptyLines
    \/ CallPreprocess
    \/ CallDesugar
    \/ CallAgain

\* Only the functions of preprocess.py are exercised.
PreprocessStart ==
    /\ DriverIdle
    /\ FileWatchIdle
    /\ PreprocessInit

SpecPreprocess == PreprocessStart /\ [][PreprocessNext]_vars

\* C12: indentation repair is idempotent: indent_empty_lines called on its own
\* result returns that result, and so does preprocess.
C12_Idempotent ==
    twice # NotCalled => twice = once

\* C12 witness: preprocess has been called twice on a text whose tabs it
\* expanded and in which it indented an empty line.
C12_Witness ==
    /\ fn = "preprocess"
    /\ twice # NotCalled
    /\ leading_tabs_to_spaces(arg) # arg
    /\ once.value # leading_tabs_to_spaces(arg)

\* The source has a '!' that only ASCII letters follow.
BangThenLetters(s) ==
    \E i \in 1..Len(s) : s[i] = "!" /\ \A j \in (i + 1)..Len(s) : s[j] \in ascii_letters
\* The place of the last '!' of s.
LastBang(s) == CHOOSE i \in 1..Len(s) : s[i] = "!" /\ \A j \in (i + 1)..Len(s) : s[j] # "!"
\* The outcome belongs to the documentation lookup: one of its two print
\* texts, or an exception of the parser passing through it.
IsDocLookup(outcome) ==
    \/ outcome.kind = "raise"
    \/ outcome.kind = "return" /\ outcome.value # <<>>
         /\ outcome.value[1] \in {"print(", "print('Unable to find docs ("}

\* C13: desugar picks its rewrite in fixed priority: a source ending in '??'
\* gets the documentation lookup, whatever '!' it holds; otherwise a source
\* whose last '!' is followed by ASCII letters only becomes right(left), split
\* at that last '!'; every other source is returned unchanged.
C13_DesugarPriority ==
    fn = "desugar" =>
        IF Len(arg) >= 2 /\ arg[Len(arg)] = "?" /\ arg[Len(arg) - 1] = "?"
        THEN IsDocLookup(once)
        ELSE IF BangThenLetters(arg)
        THEN once = Return(SubSeq(arg, LastBang(arg) + 1, Len(arg)) \o <<"(">>
                             \o SubSeq(arg, 1, LastBang(arg) - 1) \o <<")">>)
        ELSE once = Return(arg)

\* C13 witness: "x!x!xx" style input: a source with two '!' was rewritten.
C13_Witness ==
    /\ fn = "desugar"
    /\ arg = <<"x", "!", " ", "!", "x">>
    /\ once = Return(<<"x", "(", "x", "!", " ", ")">>)

\* C14: for every source ending in '??' desugar returns a print statement and
\* never raises.
C14_NeverRaises ==
    (fn = "desugar" /\ endswith(arg, <<"?", "?">>))
        => (once.kind = "return" /\ once.value[1] \in {"print(", "print('Unable to find docs ("})

\* ============================================================ filewatch.py
\* Pending modules a watcher is given before it is activated, at most.
MaxPending == 2

\* importcompletion.SUFFIXES: the suffixes a module file can have.
SUFFIXES == {".py", ".pyc", ".so"}

\* defaultdict(set): a function from the keys present to sets.
defaultdict == <<>>
\* d[key] of a defaultdict(set) for reading
Get(d, key) == IF key \in DOMAIN d THEN d[key] ELSE {}
\* d[key].add(value)
Add(d, key, value) ==
    [k \in DOMAIN d \cup {key} |-> IF k = key THEN Get(d, k) \cup {value} ELSE d[k]]

\* _add_module, lines 39-44: the path without its module suffix, and its
\* directory.
StripSuffix(path) == <<path[1], path[2], IF path[3] \in SUFFIXES THEN "" ELSE path[3]>>
dirname(path) == path[1]

\* observer.schedule(self, dirname, recursive=False): one watch per directory
schedule(ws, d) == ws \cup {d}

\* _add_module(path) on the pair <<dirs, watches>>
add_module(dw, path) ==
    LET stripped == StripSuffix(path)
        d == dirname(stripped)
    IN <<Add(dw[1], d, stripped),
         IF d \notin DOMAIN dw[1] THEN schedule(dw[2], d) ELSE dw[2]>>

RECURSIVE add_modules(_, _)
\* for path in paths: self._add_module(path)
add_modules(dw, paths) ==
    IF paths = <<>> THEN dw ELSE add_modules(add_module(dw, Head(paths)), Tail(paths))

\* __init__(paths, on_change)
FileWatchInit ==
    /\ \E paths \in {<<>>, <<<<"pkg", "a", ".py">>>>} :
          LET dw == add_modules(<<defaultdict, {}>>, paths)
          IN dirs = dw[1] /\ watches = dw[2]
    /\ modules_to_add_later = <<>>
    /\ old_dirs = defaultdict
    /\ started = FALSE
    /\ activated = FALSE
    /\ observer_running = FALSE
    /\ last_call = NoCall
    /\ passed = {}

\* Only the last path is kept for later.
add_module_later_forgetful(pending, path) == <<path>>
\* _add_module_later(path)
add_module_later(pending, path) == Append(pending, path)

track_module ==
    \E path \in RawPaths :
        /\ IF activated
           THEN /\ LET dw == add_module(<<dirs, watches>>, path)
                   IN dirs' = dw[1] /\ watches' = dw[2]
                /\ UNCHANGED modules_to_add_later
           ELSE /\ Len(modules_to_add_later) < MaxPending
                /\ modules_to_add_later' = add_module_later(modules_to_add_later, path)
                /\ UNCHANGED <<dirs, watches>>
        /\ last_call' = Call("track_module", path, FALSE, FileWatchFields)
        /\ passed' = passed \cup {path}
        /\ UNCHANGED <<activated, started, old_dirs, observer_running>>
        /\ UNCHANGED <<driverVars, preprocessVars>>

\* An activated watcher is activated again without complaint.
activate_conflict_ignored(a) == FALSE
\* if self.activated: raise ValueError
activate_conflict(a) == a

activate ==
    /\ IF activate_conflict(activated)
       THEN /\ last_call' = Call("activate", NoPath, TRUE, FileWatchFields)
            /\ UNCHANGED fileWatchState
       ELSE /\ started' = TRUE
            /\ observer_running' = TRUE
            /\ LET rescheduled == watches \cup DOMAIN dirs
                   dw == add_modules(<<dirs, rescheduled>>, modules_to_add_later)
               IN dirs' = dw[1] /\ watches' = dw[2]
            /\ modules_to_add_later' = <<>>
            /\ activated' = TRUE
            /\ last_call' = Call("activate", NoPath, FALSE, FileWatchFields)
            /\ UNCHANGED old_dirs
    /\ UNCHANGED passed
    /\ UNCHANGED <<driverVars, preprocessVars>>

deactivate ==
    /\ IF ~activated
       THEN /\ last_call' = Call("deactivate", NoPath, TRUE, FileWatchFields)
            /\ UNCHANGED fileWatchState
       ELSE /\ watches' = {}
            /\ activated' = FALSE
            /\ last_call' = Call("deactivate", NoPath, FALSE, FileWatchFields)
            /\ UNCHANGED <<started, dirs, modules_to_add_later, old_dirs, observer_running>>
    /\ UNCHANGED passed
    /\ UNCHANGED <<driverVars, preprocessVars>>

\* reset(): everything tracked or pending is forgotten, on purpose; the
\* paths passed are counted afresh from here.
reset ==
    /\ dirs' = defaultdict
    /\ modules_to_add_later' = <<>>
    /\ old_dirs' = defaultdict
    /\ watches' = {}
    /\ last_call' = Call("reset", NoPath, FALSE, FileWatchFields)
    /\ passed' = {}
    /\ UNCHANGED <<activated, started, observer_running>>
    /\ UNCHANGED <<driverVars, preprocessVars>>

\* on_any_event(event) for a file of a watched directory: on_change is called
\* when the file is the .py of a tracked module.  No field changes.
on_any_event ==
    \E src_path \in RawPaths :
        /\ observer_running
        /\ dirname(src_path) \in watches
        /\ LET dirpath == dirname(src_path)
               paths == {<<q[1], q[2], ".py">> : q \in Get(dirs, dirpath)}
           IN last_call' = Call(IF src_path \in paths
                                THEN "on_any_event, on_change called"
                                ELSE "on_any_event",
                                src_path, FALSE, FileWatchFields)
        /\ UNCHANGED <<fileWatchState, passed>>
        /\ UNCHANGED <<driverVars, preprocessVars>>

FileWatchNext ==
    \/ track_module
    \/ activate
    \/ deactivate
    \/ reset
    \/ on_any_event

\* Only the watcher is exercised.
FileWatchStart ==
    /\ DriverIdle
    /\ PreprocessIdle
    /\ FileWatchInit

SpecFileWatch == FileWatchStart /\ [][FileWatchNext]_vars

\* The module path is recorded in self.dirs.
Tracked(f, path) ==
    LET stripped == StripSuffix(path)
    IN dirname(stripped) \in DOMAIN f.dirs /\ stripped \in f.dirs[dirname(stripped)]
\* The path waits in self.modules_to_add_later.
Pending(f, path) == \E i \in 1..Len(f.modules_to_add_later) : f.modules_to_add_later[i] = path

\* C15: activate() on an activated watcher and deactivate() on a watcher that
\* is not activated raise and leave every field as it was; any other
\* activate() ends activated, any other deactivate() ends not activated.
C15_ActivationConflicts ==
    /\ last_call.op = "activate" =>
          IF last_call.before.activated
          THEN last_call.raised /\ FileWatchFields = last_call.before
          ELSE ~last_call.raised /\ activated
    /\ last_call.op = "deactivate" =>
          IF ~last_call.before.activated
          THEN last_call.raised /\ FileWatchFields = last_call.before
          ELSE ~last_call.raised /\ ~activated

\* C15 witness: activate() has just raised on a watcher that was activated
\* with modules tracked and watches scheduled.
C15_Witness ==
    /\ last_call.op = "activate"
    /\ last_call.raised
    /\ started
    /\ watches = Dirnames
    /\ modules_to_add_later = <<>>

\* C19: track_module on a watcher that is not activated records the path and
\* tracks nothing new; a successful activate() tracks every recorded path and
\* empties the pending list; track_module on an activated watcher tracks the
\* path at once; and every path passed to track_module (since the last
\* reset()) is tracked or pending, with a watch on the directory of every
\* tracked module while the watcher is activated.
C19_NoPathDropped ==
    /\ last_call.op = "track_module" =>
          IF last_call.before.activated
          THEN /\ Tracked(FileWatchFields, last_call.path)
               /\ modules_to_add_later = last_call.before.modules_to_add_later
          ELSE /\ modules_to_add_later
                    = Append(last_call.before.modules_to_add_later, last_call.path)
               /\ dirs = last_call.before.dirs
               /\ watches = last_call.before.watches
    /\ (last_call.op = "activate" /\ ~last_call.raised) =>
          /\ modules_to_add_later = <<>>
          /\ \A path \in RawPaths :
                Pending(last_call.before, path) => Tracked(FileWatchFields, path)
    /\ \A path \in passed :
          Tracked(FileWatchFields, path) \/ Pending(FileWatchFields, path)
    /\ activated => DOMAIN dirs \subseteq watches

\* C19 witness: two paths were passed before activation and one after a
\* deactivation; the watcher is activated again and tracks all of them.
C19_Witness ==
    /\ activated
    /\ last_call.op = "activate"
    /\ ~last_call.raised
    /\ last_call.before.started
    /\ Len(last_call.before.modules_to_add_later) = 1
    /\ Cardinality(passed) = 3
    /\ \A path \in passed : Tracked(FileWatchFields, path)

\* ------------------------------------------------------------ warm-up
\* mainloop has not yet pulled from the coalescer.
InWarmup == phase \in {"startup", "paste", "first_paint"}
\* What the warm-up dispatches, in order.
WarmupEvents ==
    (IF interactive THEN <<StartupVal>> ELSE <<>>) \o (IF paste THEN <<PasteArgVal>> ELSE <<>>)
IsPrefix(a, b) == Len(a) <= Len(b) /\ \A i \in 1..Len(a) : a[i] = b[i]

\* C16: before anything is pulled from the coalescer mainloop, in this order,
\* (interactive only) injects the helper and processes RunStartupFileEvent,
\* processes the paste it was given if any, and makes one paint with no
\* event; a termination raised by a step is followed by its final paint only:
\* no later step, no fetch, no pull.
C16_WarmupOrder ==
    /\ InWarmup =>
          /\ IsPrefix(dispatched, WarmupEvents)
          /\ fetched = <<>> /\ out = <<>> /\ pulls = 0
          /\ paintsSincePull <= Len(dispatched) + 1
    /\ (InWarmup /\ pc \notin {"warm_startup"}) =>
          interp_locals = IF interactive THEN {"help"} ELSE {}
    /\ (InWarmup /\ pc = "pull") =>
          /\ dispatched = WarmupEvents
          /\ paintsSincePull = Len(WarmupEvents) + 1
          /\ cur = NoneVal
          /\ raised = "none"
    /\ (InWarmup /\ raised # "none") =>
          /\ pc \in {"paint", "exited"}
          /\ Len(dispatched) >= 1
          /\ pc = "exited" => (paintsSincePull = Len(dispatched) /\ propagated = raised)
    /\ ~InWarmup => (IsPrefix(WarmupEvents, dispatched) /\ Len(out) >= Len(dispatched) - Len(WarmupEvents))

\* C16 witness: an interactive session given a paste has run its startup
\* file, processed the paste, painted once more, and is about to pull its
\* first value.
C16_Witness ==
    /\ interactive /\ paste
    /\ pc = "pull" /\ pulls = 0
    /\ dispatched = <<StartupVal, PasteArgVal>>
    /\ paintsSincePull = 3

\* C17: when main() was started with --paste and a file, the PasteEvent built
\* from the file has been dispatched by the time of the first forced paint.
C17_PasteOptionDispatched ==
    (options_paste /\ phase \in {"first_paint", "scan", "loop"})
        => \E i \in 1..Len(dispatched) : dispatched[i] = PasteArgVal

\* ------------------------------------------------------------ coalescer output
\* C18: a PasteEvent is yielded only when the queue holds at least
\* paste_threshold keystrokes as probing stops; each PasteEvent yielded is
\* non-empty and holds exactly the queue (a whole run of keystrokes read, in
\* the order read); and the queue is empty whenever the generator is back at
\* its outer send.
C18_PasteOnlyFromFullQueue ==
    /\ [](\A m \in 1..Len(out) :
             out[m].type = "PasteEvent"
                => /\ out[m].events # <<>>
                   /\ Len(out[m].events) >= paste_threshold
                   /\ \E j \in RunEnds : out[m].events = Run(RunStart(j), j))
    /\ [](AtOuterFetch => queue = <<>>)
    /\ [][(Len(out') > Len(out) /\ out'[Len(out')].type = "PasteEvent")
            => /\ pc = "probe"
               /\ Len(queue) >= paste_threshold
               /\ out'[Len(out')].events = queue
               /\ queue' = <<>>]_vars

\* C18 witness: a paste was yielded, and the generator, resumed by the
\* blocking loop, is at its outer send with an empty queue.
C18_Witness ==
    /\ AtOuterFetch
    /\ timeout = "None"
    /\ queue = <<>>
    /\ Len(out) >= 1
    /\ out[Len(out)].type = "PasteEvent"

RECURSIVE KeysYielded(_)
\* The keystrokes of the yielded values vs, each PasteEvent opened up.
KeysYielded(vs) ==
    IF vs = <<>> THEN <<>>
    ELSE (IF Head(vs).type = "key" THEN <<Head(vs).u>>
          ELSE IF Head(vs).type = "PasteEvent" THEN Head(vs).events
          ELSE <<>>) \o KeysYielded(Tail(vs))

\* C20: the keystrokes yielded so far, on their own or inside PasteEvents,
\* followed by those still queued, are exactly the keystrokes read from the
\* source, each once and in the order read; at every outer send all of them
\* have been yielded.
C20_KeystrokesPreserved ==
    /\ KeysYielded(out) \o queue = SelectSeq(fetched, IsKey)
    /\ AtOuterFetch => KeysYielded(out) = SelectSeq(fetched, IsKey)

\* C20 witness: two keystrokes were read in a row and a third later; all
\* three have been yielded on their own, in the order read.
C20_Witness ==
    /\ AtOuterFetch
    /\ Len(fetched) >= 4
    /\ KeyRunAt(1, 2)
    /\ Len(SelectSeq(fetched, IsKey)) = 3
    /\ \A m \in 1..Len(out) : out[m].type # "PasteEvent"
    /\ KeysYielded(out) = SelectSeq(fetched, IsKey)

\* ------------------------------------------------------------ line by line
\* The lines of a text, and line i of ls with the empty line beyond both ends.
LinesOf(s) == split(s, "\n")
LineAt(ls, i) == IF i \in 1..Len(ls) THEN ls[i] ELSE <<>>
\* The shorter of the leading whitespace of the lines before and after line i.
ShorterIndent(ls, i) ==
    LET p == indent_empty_lines_re(LineAt(ls, i - 1))
        n == indent_empty_lines_re(LineAt(ls, i + 1))
    IN IF Len(p) <= Len(n) THEN p ELSE n
\* The text out is the text in with each zero-length line indented so.
RepairedLineByLine(in, res) ==
    /\ Len(LinesOf(res)) = Len(LinesOf(in))
    /\ \A i \in 1..Len(LinesOf(in)) :
          LineAt(LinesOf(res), i) = IF Len(LinesOf(in)[i]) # 0
                                    THEN LinesOf(in)[i]
                                    ELSE ShorterIndent(LinesOf(in), i)

\* C21: for every text, the empty one included, indent_empty_lines returns a
\* text of as many lines in which every line of non-zero length is the input
\* line and every zero-length line is the shorter of the leading whitespace
\* of the input lines before and after it.
C21_LinesPreserved ==
    fn = "indent_empty_lines" => RepairedLineByLine(arg, once.value)

====
